---- MODULE Spec2Model ----
(***************************************************************************)
(* Model of mp285sutterwithGUI.py: the sutterMP285 serial driver class and *)
(* the state it keeps (the pyserial handle, the cached status values).     *)
(*                                                                         *)
(* Bytes are integers 0..255 and a byte string is a sequence of them.      *)
(* The serial port is the environment: what the device answers, and how    *)
(* many of the requested bytes arrive before the read timeout, are chosen  *)
(* nondeterministically in each operation.                                 *)
(*                                                                         *)
(* Spec is the driver behind its module-level object; SpecCodec and        *)
(* SpecPos run the velocity and the position encodings on drawn inputs;    *)
(* SpecGui is the window's handlers of the two saved lists.                *)
(***************************************************************************)
EXTENDS Integers, Sequences, FiniteSets, TLC

VARIABLES
    pc,      \* "start" | "ready" | "exited" (sys.exit) | "crashed" (uncaught exception at module level)
    self,    \* the attributes of the sutterMP285 object
    ser,     \* the serial port: [open, rx]; rx = bytes the device produced that no read has returned yet
    last,    \* the last operation run: its arguments, transport I/O, outcome, return value, printed report
    codec,   \* the velocity field under test in SpecCodec: [Vel, vScalF, frame, status]
    trip,    \* the position under test in SpecPos: its inputs and what encoding and decoding gave
    listpossave,     \* the GUI's module-level list of saved positions
    listpausesave    \* the GUI's module-level list of saved pauses

vars == <<pc, self, ser, last, codec, trip, listpossave, listpausesave>>

\* the variables the driver class never touches
gui == <<listpossave, listpausesave>>

-----------------------------------------------------------------------------
(* Bounds of the model (not program constants).                            *)

\* the device answers a command only while at most MaxStale earlier bytes are unread
MaxStale == 1
\* a read that times out misses at most MaxLate of the bytes on their way to it
MaxLate == 1
\* an acknowledged move takes 0..MaxDelay seconds
MaxDelay == 1
\* the wall clock read by time.time() when a move starts ranges over 0..MaxClock
MaxClock == 1
\* SpecCodec packs every velocity in 0..MaxVel (beyond the 15 bits of the field)
MaxVel == 32800
\* SpecGui saves and inserts list elements only while both lists are shorter than MaxList
MaxList == 2
\* savepos adds to the last saved position only while no coordinate of the sum
\* is beyond MaxTravel micrometres
MaxTravel == 10

-----------------------------------------------------------------------------
(* Values written in the source.                                           *)

timeOut == 30       \* self.timeOut
verbose == 1        \* self.verbose
StartVelocity == 200
StatusLen == 32
PositionReadLen == 13

\* ASCII codes of the characters the source writes
CR == 13
OpGetPosition == 99
OpMove == 109
OpVelocity == 86
OpPanel == 110
OpOrigin == 111
OpReset == 114
OpStatus == 115

None == "None"      \* Python's None

-----------------------------------------------------------------------------
(* Python helpers: slices, bit operations, struct.pack / struct.unpack.    *)

Min(a, b) == IF a < b THEN a ELSE b

\* s[:n]
Take(s, n) == SubSeq(s, 1, Min(n, Len(s)))
\* s[n:]
Drop(s, n) == SubSeq(s, Min(n, Len(s)) + 1, Len(s))

RECURSIVE BitAnd(_, _)
\* a & b on non-negative integers
BitAnd(a, b) ==
    IF a = 0 \/ b = 0 THEN 0
    ELSE (a % 2) * (b % 2) + 2 * BitAnd(a \div 2, b \div 2)

\* struct.pack('H', v): [exc, bytes], native (little-endian) unsigned short
PackH(v) ==
    IF v < 0 \/ v > 65535
    THEN [exc |-> "struct.error", bytes |-> <<>>]
    ELSE [exc |-> "none", bytes |-> <<v % 256, v \div 256>>]

\* struct.pack('B', v)
PackB(v) ==
    IF v < 0 \/ v > 255
    THEN [exc |-> "struct.error", bytes |-> <<>>]
    ELSE [exc |-> "none", bytes |-> <<v>>]

MaxLong == 2147483647        \* the largest signed 32-bit value; the smallest is -MaxLong - 1

\* one native 4-byte signed long ('l' where the port COM3 exists), little-endian,
\* two's complement: a negative v has the bytes of v + 2^31 with the top bit set
LongBytes(v) ==
    LET w == IF v < 0 THEN (v + MaxLong) + 1 ELSE v
        top == IF v < 0 THEN 128 ELSE 0
    IN  <<w % 256, (w \div 256) % 256, (w \div 65536) % 256, (w \div 16777216) + top>>

\* the value sign * (q * m + e) as [fits, v]: fits says it is a signed 32-bit
\* value, v is it. The test is made by division so that it stays within 32 bits.
Fit(neg, q, e, m) ==
    LET upTo == m = 0 \/ q <= (MaxLong - e) \div m                 \* q*m + e <= MaxLong
        least == /\ neg /\ m > 0                                    \* q*m + e = MaxLong + 1
                 /\ IF e > 0
                    THEN (MaxLong - (e - 1)) % m = 0 /\ q = (MaxLong - (e - 1)) \div m
                    ELSE /\ q > 0
                         /\ (MaxLong - (m - 1)) % m = 0
                         /\ q - 1 = (MaxLong - (m - 1)) \div m
    IN  IF upTo THEN [fits |-> TRUE, v |-> IF neg THEN -(q * m + e) ELSE q * m + e]
        ELSE IF least THEN [fits |-> TRUE, v |-> (-MaxLong) - 1]
        ELSE [fits |-> FALSE, v |-> 0]

\* |n| = (q + carry) * d + r with 0 <= r < d, taken from -(n + 1) for a negative
\* n so that the smallest 32-bit value has a magnitude too
Split(n, d) ==
    LET a1 == IF n < 0 THEN -(n + 1) ELSE n
        r1 == a1 % d
        wraps == n < 0 /\ r1 + 1 = d
    IN  [q |-> a1 \div d,
         carry |-> IF wraps THEN 1 ELSE 0,
         r |-> IF wraps THEN 0 ELSE IF n < 0 THEN r1 + 1 ELSE r1]

\* int(x * m) for the real number x = n/d (d > 0) and the integer m >= 0:
\* the product is (|n| div d) * m + ((|n| mod d) * m) div d
Steps(n, d, m) ==
    LET a == Split(n, d)
    IN  Fit(n < 0, a.q, a.carry * m + (a.r * m) \div d, m)

RECURSIVE IsPow2(_)
IsPow2(d) == d = 1 \/ (d > 1 /\ d % 2 = 0 /\ IsPow2(d \div 2))

\* the float n/d is the real number n/d: the quotient is an integer or d is a
\* power of two (|n| is far below 2^53)
Exact(n, d) == n % d = 0 \/ IsPow2(d)

\* the float product (n/d) * m can fall short of an integer: the quotient n/d
\* was rounded and the real product is a whole number, so that a float product
\* a fraction of a step nearer to zero truncates to one step less
CanFallShort(n, d, m) ==
    ~Exact(n, d) /\ m > 0 /\ (Split(n, d).r * m) % d = 0

\* int(pos * stepMult) for the float pos = n/d, in float arithmetic.  A float
\* product differs from the real one by less than 2^-20 steps, which changes
\* the truncation only when the real product is whole and the float one fell
\* short of it; `short` says that it did (the rounding is not computed here).
FloatSteps(n, d, m, short) ==
    LET a == Split(n, d)
        e == a.carry * m + (a.r * m) \div d
    IN  IF ~(short /\ CanFallShort(n, d, m)) THEN Steps(n, d, m)
        ELSE IF e > 0 THEN Fit(n < 0, a.q, e - 1, m)
        ELSE Fit(n < 0, a.q - 1, m - 1, m)

\* PackLLL as it would be if values out of range were stored without a test
PackLLLUnchecked(a, b, c) ==
    [exc |-> "none", bytes |-> LongBytes(a.v) \o LongBytes(b.v) \o LongBytes(c.v)]

\* struct.pack('lll', a, b, c) of three Steps values
PackLLL(a, b, c) ==
    IF a.fits /\ b.fits /\ c.fits
    THEN [exc |-> "none", bytes |-> LongBytes(a.v) \o LongBytes(b.v) \o LongBytes(c.v)]
    ELSE [exc |-> "struct.error", bytes |-> <<>>]

\* LongValue as it would be for an unsigned format: the top bit is dropped
LongValueNoSign(b) ==
    b[1] + 256 * b[2] + 65536 * b[3] + 16777216 * (b[4] % 128)

\* one native 4-byte signed long read back from its bytes
LongValue(b) ==
    LET w == b[1] + 256 * b[2] + 65536 * b[3] + 16777216 * (b[4] % 128)
    IN  IF b[4] >= 128 THEN (w - MaxLong) - 1 ELSE w

\* struct.unpack('lll', b): needs exactly 12 bytes
UnpackLLL(b) ==
    IF Len(b) # 12
    THEN [exc |-> "struct.error", vals |-> <<>>]
    ELSE [exc |-> "none",
          vals |-> <<LongValue(SubSeq(b, 1, 4)), LongValue(SubSeq(b, 5, 8)),
                     LongValue(SubSeq(b, 9, 12))>>]

\* Unpack32B as it would be if a short string were filled up with zero bytes
Unpack32BPadded(b) ==
    [exc |-> "none", vals |-> [i \in 1..StatusLen |-> IF i <= Len(b) THEN b[i] ELSE 0]]

\* struct.unpack(32*'B', b): needs exactly 32 bytes, gives them as integers
Unpack32B(b) ==
    IF Len(b) # StatusLen
    THEN [exc |-> "struct.error", vals |-> <<>>]
    ELSE [exc |-> "none", vals |-> b]

-----------------------------------------------------------------------------
(* Optional attributes, return values and printed reports.                 *)

Def(v) == <<v>>            \* an attribute that holds v
IsDef(x) == Len(x) = 1
Val(x) == x[1]
NoAttr == <<>>             \* an attribute never assigned

NoneRet == [kind |-> None, val |-> <<>>]
NoReport == [msg |-> "", val |-> 0]

Result(exc, s, p, io, ret, report) ==
    [exc |-> exc, self |-> s, ser |-> p, io |-> io, ret |-> ret, report |-> report]

-----------------------------------------------------------------------------
(* The serial port (pyserial) and the device behind it.                    *)

\* every byte still unread belongs to an earlier command once a new one is written
Stale(rx) == [i \in 1..Len(rx) |-> [b |-> rx[i].b, stale |-> TRUE]]
Fresh(bytes) == [i \in 1..Len(bytes) |-> [b |-> bytes[i], stale |-> FALSE]]
Bytes(rx) == [i \in 1..Len(rx) |-> rx[i].b]

\* the state of the transport inside one operation
Port(p) == [ser |-> p, io |-> <<>>, exc |-> "none", data |-> <<>>]

\* SerWrite as it would be if a closed port accepted the bytes
SerWriteUnchecked(t, frame, reply) ==
    IF t.exc # "none" THEN t
    ELSE [t EXCEPT
            !.ser.rx = Stale(@) \o Fresh(reply),
            !.io = Append(@, [kind |-> "w", n |-> Len(frame), bytes |-> frame,
                              outstanding |-> Len(t.ser.rx), stale |-> FALSE])]

\* self.ser.write(frame); the device queues `reply`. A closed port raises.
SerWrite(t, frame, reply) ==
    IF t.exc # "none" THEN t
    ELSE IF ~t.ser.open THEN [t EXCEPT !.exc = "SerialException"]
    ELSE [t EXCEPT
            !.ser.rx = Stale(@) \o Fresh(reply),
            !.io = Append(@, [kind |-> "w", n |-> Len(frame), bytes |-> frame,
                              outstanding |-> Len(t.ser.rx), stale |-> FALSE])]

\* self.ser.read(n) that got k <= n bytes before the timeout (k < n: it timed out)
SerRead(t, n, k) ==
    IF t.exc # "none" THEN t
    ELSE IF ~t.ser.open THEN [t EXCEPT !.exc = "SerialException"]
    ELSE [t EXCEPT
            !.ser.rx = Drop(@, k),
            !.data = Bytes(Take(t.ser.rx, k)),
            !.io = Append(@, [kind |-> "r", n |-> n, bytes |-> Bytes(Take(t.ser.rx, k)),
                              outstanding |-> 0,
                              stale |-> \E i \in 1..Min(k, Len(t.ser.rx)) : t.ser.rx[i].stale])]

\* self.ser.close(): idempotent, drops what was not read
SerClose(p) == [open |-> FALSE, rx |-> <<>>]

\* The status block printed in the header comment of the source.
ExampleStatus ==
    <<64, 0, 2, 4, 7, 0, 99, 0, 99, 0, 20, 0, 136, 19, 1, 120, 112, 23, 16, 39,
      80, 0, 0, 0, 25, 0, 4, 0, 200, 0, 84, 1>>

\* statusbytes[i] of Python is block[i+1] here
WithStatus(block, b24, b25, b28, b29) ==
    [i \in 1..StatusLen |->
        IF i = 25 THEN b24 ELSE IF i = 26 THEN b25
        ELSE IF i = 29 THEN b28 ELSE IF i = 30 THEN b29 ELSE block[i]]

ZeroStatus == [i \in 1..StatusLen |-> 0]

\* status blocks the device may send
StatusBlocks ==
    { ExampleStatus,
      WithStatus(ZeroStatus, 25, 0, 200, 0),
      WithStatus(ExampleStatus, 25, 0, 1, 172),
      WithStatus(ExampleStatus, 0, 1, 255, 127),
      ZeroStatus }

\* step counts the device may report
DevicePositions == { <<10000, 20000, 30000>>, <<-1, 0, 2147483647>> }

\* what the device answers to a command, by opcode
Replies(opcode) ==
    IF opcode = OpGetPosition
    THEN { LongBytes(s[1]) \o LongBytes(s[2]) \o LongBytes(s[3]) \o <<CR>> : s \in DevicePositions }
    ELSE IF opcode = OpStatus THEN { b \o <<CR>> : b \in StatusBlocks }
    ELSE IF opcode = OpReset THEN {}
    ELSE { <<CR>> }

\* the device answers, or stays silent
DeviceReplies(opcode, rx) ==
    { <<>> } \cup (IF Len(rx) <= MaxStale THEN Replies(opcode) ELSE {})

\* how many of the n requested bytes a read returns when `avail` are on their way:
\* all it asked for, or fewer when the timeout cut it short
ReadCounts(n, avail) ==
    LET m == Min(n, avail) IN { k \in 0..m : m - k <= MaxLate }

-----------------------------------------------------------------------------
(* The methods of class sutterMP285. Each takes the object's attributes s, *)
(* the port p, its arguments, and what the environment does during the     *)
(* call (the device's reply, the bytes each read gets), and gives          *)
(* Result(exception, attributes, port, transport I/O, return value, print).*)

\* getPosition(self)
getPositionRun(s, p, reply, k) ==
    LET t1 == SerWrite(Port(p), <<OpGetPosition, CR>>, reply)
        t2 == SerRead(t1, PositionReadLen, k)
        u  == UnpackLLL(Take(t2.data, 12))
        xyz_um == [i \in 1..3 |-> <<u.vals[i], Val(s.stepMult)>>]
    IN  IF t2.exc # "none" THEN Result(t2.exc, s, t2.ser, t2.io, NoneRet, NoReport)
        ELSE IF u.exc # "none" THEN Result(u.exc, s, t2.ser, t2.io, NoneRet, NoReport)
        ELSE IF ~IsDef(s.stepMult)
             THEN Result("AttributeError", s, t2.ser, t2.io, NoneRet, NoReport)
        ELSE Result("none", s, t2.ser, t2.io, [kind |-> "array", val |-> xyz_um],
                    [msg |-> "Stage position", val |-> 0])

\* MoveReport as it would be without the test of len(cr)
MoveReportNoTimeout(s, cr, startt, endt) ==
    [msg |-> "Sutter move completed in", val |-> endt - startt]

\* what gotoPosition prints once the read returned cr
MoveReport(s, cr, startt, endt) ==
    IF Len(cr) = 0
    THEN [msg |-> "Sutter did not finish moving before timeout", val |-> Val(s.timeOut)]
    ELSE [msg |-> "Sutter move completed in", val |-> endt - startt]

\* how the three float products of gotoPosition(pos) can be rounded
Roundings(s, pos) ==
    IF Len(pos) = 3 /\ IsDef(s.stepMult)
    THEN {short \in [1..3 -> BOOLEAN] :
             \A i \in 1..3 : short[i] => CanFallShort(pos[i][1], pos[i][2], Val(s.stepMult))}
    ELSE {[i \in 1..3 |-> FALSE]}

\* gotoPosition(self, pos): pos a sequence of floats n/d given as <<n, d>>,
\* short[i] the rounding of pos[i]*self.stepMult; time.time() gives startt
\* before the write and endt after the read
gotoPositionRun(s, p, pos, short, reply, k, startt, endt) ==
    LET steps == [i \in 1..3 |->
                     FloatSteps(pos[i][1], pos[i][2], Val(s.stepMult), short[i])]
        xyzb == PackLLL(steps[1], steps[2], steps[3])
        t1 == SerWrite(Port(p), <<OpMove>> \o xyzb.bytes \o <<CR>>, reply)
        t2 == SerRead(t1, 1, k)
    IN  IF Len(pos) # 3
        THEN Result("SystemExit", s, p, <<>>, NoneRet,
                    [msg |-> "the length of the position argument has to be 3", val |-> 0])
        ELSE IF ~IsDef(s.stepMult) THEN Result("AttributeError", s, p, <<>>, NoneRet, NoReport)
        ELSE IF xyzb.exc # "none" THEN Result(xyzb.exc, s, p, <<>>, NoneRet, NoReport)
        ELSE IF t2.exc # "none" THEN Result(t2.exc, s, t2.ser, t2.io, NoneRet, NoReport)
        ELSE Result("none", s, t2.ser, t2.io, NoneRet, MoveReport(s, t2.data, startt, endt))

\* VelocityField as it would be with the scale bit put on velb[0]
VelocityFieldLowByte(Vel, vScalF) ==
    LET velb == PackH(Vel)
        velb2 == PackB(velb.bytes[1] + 128)
    IN  IF velb.exc # "none" THEN velb
        ELSE IF vScalF = 50
             THEN IF velb2.exc # "none" THEN velb2
                  ELSE [exc |-> "none", bytes |-> velb2.bytes \o <<velb.bytes[2]>>]
        ELSE velb

\* the two payload bytes of the 'V' command: [exc, bytes]
VelocityField(Vel, vScalF) ==
    LET velb == PackH(Vel)
        velb2 == PackB(velb.bytes[2] + 128)
    IN  IF velb.exc # "none" THEN velb
        ELSE IF vScalF = 50
             THEN IF velb2.exc # "none" THEN velb2
                  ELSE [exc |-> "none", bytes |-> <<velb.bytes[1]>> \o velb2.bytes]
        ELSE velb

\* setVelocity(self, Vel, vScalF)
setVelocityRun(s, p, Vel, vScalF, reply, k) ==
    LET velb == VelocityField(Vel, vScalF)
        t1 == SerWrite(Port(p), <<OpVelocity>> \o velb.bytes \o <<CR>>, reply)
        t2 == SerRead(t1, 1, k)
    IN  IF velb.exc # "none" THEN Result(velb.exc, s, p, <<>>, NoneRet, NoReport)
        ELSE Result(t2.exc, s, t2.ser, t2.io, NoneRet, NoReport)

\* AckCommandRun as it would be without the read of the acknowledgement
AckCommandNoRead(s, p, opcode, reply, k) ==
    LET t1 == SerWrite(Port(p), <<opcode, CR>>, reply)
    IN  Result(t1.exc, s, t1.ser, t1.io, NoneRet, NoReport)

\* the body shared by updatePanel ('n') and setOrigin ('o'): write, read(1)
AckCommandRun(s, p, opcode, reply, k) ==
    LET t1 == SerWrite(Port(p), <<opcode, CR>>, reply)
        t2 == SerRead(t1, 1, k)
    IN  Result(t2.exc, s, t2.ser, t2.io, NoneRet, NoReport)

\* updatePanel(self)
updatePanelRun(s, p, reply, k) == AckCommandRun(s, p, OpPanel, reply, k)

\* setOrigin(self)
setOriginRun(s, p, reply, k) == AckCommandRun(s, p, OpOrigin, reply, k)

\* sendReset(self)
sendResetRun(s, p, reply) ==
    LET t1 == SerWrite(Port(p), <<OpReset, CR>>, reply)
    IN  Result(t1.exc, s, t1.ser, t1.io, NoneRet, [msg |-> "resetting connection", val |-> 0])

\* StatusDecode as it would be without the mask 127 &
StatusDecodeUnmasked(sb) ==
    [stepMult |-> sb[26] * 256 + sb[25],
     vScaleFactor |-> IF sb[30] > 127 THEN 50 ELSE 10,
     currentVelocity |-> sb[30] * 256 + sb[29]]

\* the three values getStatus takes from statusbytes (0-based index i is sb[i+1])
StatusDecode(sb) ==
    [stepMult |-> sb[26] * 256 + sb[25],
     vScaleFactor |-> IF sb[30] > 127 THEN 50 ELSE 10,
     currentVelocity |-> BitAnd(127, sb[30]) * 256 + sb[29]]

\* getStatus(self)
getStatusRun(s, p, reply, k1, k2) ==
    LET t1 == SerWrite(Port(p), <<OpStatus, CR>>, reply)
        t2 == SerRead(t1, StatusLen, k1)
        rrr == t2.data
        t3 == SerRead(t2, 1, k2)
        u  == Unpack32B(rrr)
        d  == StatusDecode(u.vals)
        s2 == [s EXCEPT !.stepMult = Def(d.stepMult),
                        !.vScaleFactor = Def(d.vScaleFactor),
                        !.currentVelocity = Def(d.currentVelocity)]
    IN  IF t3.exc # "none" THEN Result(t3.exc, s, t3.ser, t3.io, NoneRet, NoReport)
        ELSE IF u.exc # "none" THEN Result(u.exc, s, t3.ser, t3.io, NoneRet, NoReport)
        ELSE Result("none", s2, t3.ser, t3.io,
                    [kind |-> "tuple",
                     val |-> <<d.stepMult, d.currentVelocity, d.vScaleFactor>>],
                    [msg |-> "get status info", val |-> 0])

-----------------------------------------------------------------------------
(* Inputs of the callers.                                                  *)

\* positions in um, each coordinate a rational <<n, d>>; the last has the wrong length
PosInputs ==
    { << <<10, 1>>, <<10, 1>>, <<10, 1>> >>,
      << <<-5, 2>>, <<0, 1>>, <<400, 1>> >>,
      << <<100000000, 1>>, <<0, 1>>, <<0, 1>> >>,
      << <<0, 1>>, <<0, 1>> >> }

VelInputs == {200, 32767, 40000, 65536}
ScaleInputs == {10, 20, 50}

\* bytes on their way to the port once `reply` has been queued behind rx
Avail(p, reply) == IF p.open THEN Len(p.rx) + Len(reply) ELSE 0

-----------------------------------------------------------------------------
(* State machine.                                                          *)

NoTrip == [kind |-> "", s |-> <<>>, m |-> 0, pos |-> <<>>, exc |-> "none", io |-> <<>>,
           back |-> <<>>]

NoCodec == [Vel |-> 0, vScalF |-> 10, exc |-> "none", bytes |-> <<>>, decoded |-> <<>>]

Init ==
    /\ pc = "start"
    /\ self = [verbose |-> NoAttr, timeOut |-> NoAttr, connected |-> NoAttr,
               stepMult |-> NoAttr, currentVelocity |-> NoAttr, vScaleFactor |-> NoAttr]
    /\ ser = [open |-> FALSE, rx |-> <<>>]
    /\ last = [op |-> "", args |-> <<>>, exc |-> "none", io |-> <<>>, ret |-> NoneRet,
               report |-> NoReport, timer |-> <<>>]
    /\ codec = NoCodec
    /\ trip = NoTrip
    /\ listpossave = <<>>
    /\ listpausesave = <<>>

\* the caller's view of one finished call; sys.exit ends the process
Apply(op, args, r, timer) ==
    /\ last' = [op |-> op, args |-> args, exc |-> r.exc, io |-> r.io, ret |-> r.ret,
                report |-> r.report, timer |-> timer]
    /\ self' = r.self
    /\ ser' = r.ser
    /\ pc' = IF r.exc = "SystemExit" THEN "exited" ELSE pc
    /\ UNCHANGED <<codec, trip, gui>>

\* OpenFailed as it would be if the except clause only printed: __init__ goes
\* on to self.setVelocity, which finds no self.ser
OpenFailedNoExit == [exc |-> "AttributeError", pc |-> "crashed"]

\* the except clause of __init__: sys.exit(1) raises SystemExit, which the
\* module-level caller does not catch, so the process ends
OpenFailed == [exc |-> "SystemExit", pc |-> "exited"]

\* AfterInit as it would be if __init__ caught what getStatus raises
AfterInitCaught(exc) == "ready"

\* where the module-level MP285 = sutterMP285() leaves the program when __init__
\* ended with the exception exc of its getStatus
AfterInit(exc) == IF exc # "none" THEN "crashed" ELSE "ready"

\* sutterMP285.__init__ run by the module-level MP285 = sutterMP285()
Construct ==
    /\ pc = "start"
    /\ \E openOk \in BOOLEAN :
        LET s0 == [self EXCEPT !.verbose = Def(verbose), !.timeOut = Def(timeOut)]
            s1 == [s0 EXCEPT !.connected = Def(1)]
            p1 == [open |-> TRUE, rx |-> <<>>]
        IN  IF ~openOk
            THEN /\ last' = [op |-> "__init__", args |-> <<>>, exc |-> OpenFailed.exc,
                             io |-> <<>>, ret |-> NoneRet,
                             report |-> [msg |-> "No connection to Sutter MP-285 could be established!",
                                         val |-> 0],
                             timer |-> <<>>]
                 /\ self' = s0
                 /\ pc' = OpenFailed.pc
                 /\ UNCHANGED <<ser, codec, trip, gui>>
            ELSE \E ra \in DeviceReplies(OpVelocity, p1.rx) :
                 \E ka \in ReadCounts(1, Avail(p1, ra)) :
                 LET r1 == setVelocityRun(s1, p1, StartVelocity, 10, ra, ka) IN
                 \E rb \in DeviceReplies(OpPanel, r1.ser.rx) :
                 \E kb \in ReadCounts(1, Avail(r1.ser, rb)) :
                 LET r2 == updatePanelRun(r1.self, r1.ser, rb, kb) IN
                 \E rc \in DeviceReplies(OpStatus, r2.ser.rx) :
                 \E kc \in ReadCounts(StatusLen, Avail(r2.ser, rc)) :
                 \E kd \in ReadCounts(1, Avail(r2.ser, rc) - kc) :
                 LET r3 == getStatusRun(r2.self, r2.ser, rc, kc, kd)
                     currentV == r3.ret.val[2]
                 IN  /\ last' = [op |-> "__init__", args |-> <<>>, exc |-> r3.exc,
                                 io |-> r1.io \o r2.io \o r3.io, ret |-> NoneRet,
                                 report |-> IF r3.exc # "none" THEN NoReport
                                            ELSE IF currentV = StartVelocity
                                            THEN [msg |-> "sutterMP285 ready", val |-> 0]
                                            ELSE [msg |-> "sutterMP285: WARNING sutter did not respond at startup.",
                                                  val |-> 0],
                                 timer |-> <<>>]
                     /\ self' = r3.self
                     /\ ser' = r3.ser
                     /\ pc' = AfterInit(r3.exc)
                     /\ UNCHANGED <<codec, trip, gui>>

\* sutterMP285.__del__, called by the GUI's disconnect
Release ==
    /\ pc = "ready"
    /\ last' = [op |-> "__del__", args |-> <<>>, exc |-> "none", io |-> <<>>, ret |-> NoneRet,
                report |-> [msg |-> "Connection to Sutter MP285 terminated", val |-> 0],
                timer |-> <<>>]
    /\ ser' = SerClose(ser)
    /\ UNCHANGED <<pc, self, codec, trip, gui>>

getPosition ==
    /\ pc = "ready"
    /\ \E reply \in DeviceReplies(OpGetPosition, ser.rx) :
       \E k \in ReadCounts(PositionReadLen, Avail(ser, reply)) :
          Apply("getPosition", <<>>, getPositionRun(self, ser, reply, k), <<>>)

gotoPosition ==
    /\ pc = "ready"
    /\ \E pos \in PosInputs :
       \E short \in Roundings(self, pos) :
       \E reply \in DeviceReplies(OpMove, ser.rx) :
       \E k \in ReadCounts(1, Avail(ser, reply)) :
       \E startt \in 0..MaxClock :
       \E d \in IF k = 0 THEN {timeOut} ELSE 0..MaxDelay :
          LET r == gotoPositionRun(self, ser, pos, short, reply, k, startt, startt + d)
          IN  Apply("gotoPosition", <<pos>>, r,
                    IF r.exc = "none" THEN <<startt, startt + d>> ELSE <<>>)

\* setVelocity as it would be if it stored the velocity it sent
setVelocityCaching ==
    /\ pc = "ready"
    /\ \E Vel \in VelInputs, vScalF \in ScaleInputs :
       \E reply \in DeviceReplies(OpVelocity, ser.rx) :
       \E k \in ReadCounts(1, Avail(ser, reply)) :
          LET r == setVelocityRun(self, ser, Vel, vScalF, reply, k)
          IN  Apply("setVelocity", <<Vel, vScalF>>,
                    [r EXCEPT !.self.currentVelocity = Def(Vel)], <<>>)

setVelocity ==
    /\ pc = "ready"
    /\ \E Vel \in VelInputs, vScalF \in ScaleInputs :
       \E reply \in DeviceReplies(OpVelocity, ser.rx) :
       \E k \in ReadCounts(1, Avail(ser, reply)) :
          Apply("setVelocity", <<Vel, vScalF>>,
                setVelocityRun(self, ser, Vel, vScalF, reply, k), <<>>)

updatePanel ==
    /\ pc = "ready"
    /\ \E reply \in DeviceReplies(OpPanel, ser.rx) :
       \E k \in ReadCounts(1, Avail(ser, reply)) :
          Apply("updatePanel", <<>>, updatePanelRun(self, ser, reply, k), <<>>)

setOrigin ==
    /\ pc = "ready"
    /\ \E reply \in DeviceReplies(OpOrigin, ser.rx) :
       \E k \in ReadCounts(1, Avail(ser, reply)) :
          Apply("setOrigin", <<>>, setOriginRun(self, ser, reply, k), <<>>)

sendReset ==
    /\ pc = "ready"
    /\ \E reply \in DeviceReplies(OpReset, ser.rx) :
          Apply("sendReset", <<>>, sendResetRun(self, ser, reply), <<>>)

getStatus ==
    /\ pc = "ready"
    /\ \E reply \in DeviceReplies(OpStatus, ser.rx) :
       \E k1 \in ReadCounts(StatusLen, Avail(ser, reply)) :
       \E k2 \in ReadCounts(1, Avail(ser, reply) - k1) :
          Apply("getStatus", <<>>, getStatusRun(self, ser, reply, k1, k2), <<>>)

Next ==
    \/ Construct
    \/ Release
    \/ getStatus
    \/ setVelocity
    \/ updatePanel
    \/ setOrigin
    \/ sendReset
    \/ getPosition
    \/ gotoPosition

Spec == Init /\ [][Next]_vars

-----------------------------------------------------------------------------
(* The velocity field on its own: setVelocity writes it on a fresh port,   *)
(* the two payload bytes are put at statusbytes[28] and statusbytes[29] of *)
(* a status block, and getStatus reads that block back.                    *)

FreshPort == [open |-> TRUE, rx |-> <<>>]

\* the inputs: every velocity of the range with every scale factor
CodecInit ==
    /\ pc = "start"
    /\ self = [verbose |-> NoAttr, timeOut |-> NoAttr, connected |-> NoAttr,
               stepMult |-> NoAttr, currentVelocity |-> NoAttr, vScaleFactor |-> NoAttr]
    /\ ser = [open |-> FALSE, rx |-> <<>>]
    /\ last = [op |-> "", args |-> <<>>, exc |-> "none", io |-> <<>>, ret |-> NoneRet,
               report |-> NoReport, timer |-> <<>>]
    /\ \E Vel \in 0..MaxVel, vScalF \in ScaleInputs :
          codec = [Vel |-> Vel, vScalF |-> vScalF, exc |-> "pending",
                   bytes |-> <<>>, decoded |-> <<>>]
    /\ trip = NoTrip
    /\ listpossave = <<>>
    /\ listpausesave = <<>>

PackVelocity ==
    /\ codec.exc = "pending"
    /\ LET w == setVelocityRun(self, FreshPort, codec.Vel, codec.vScalF, <<CR>>, 1)
           payload == SubSeq(w.io[1].bytes, 2, 3)
           block == WithStatus(ExampleStatus, 25, 0, payload[1], payload[2])
           g == getStatusRun(self, FreshPort, block \o <<CR>>, StatusLen, 1)
       IN  codec' = IF w.exc # "none"
                    THEN [codec EXCEPT !.exc = w.exc]
                    ELSE [codec EXCEPT !.exc = g.exc, !.bytes = payload,
                                       !.decoded = g.ret.val]
    /\ UNCHANGED <<pc, self, ser, last, trip, gui>>

CodecNext == PackVelocity

SpecCodec == CodecInit /\ [][CodecNext]_vars

-----------------------------------------------------------------------------
(* The position encoding on its own.  A round trip gives gotoPosition the  *)
(* position s/m of three step counts s, and has getPosition decode the     *)
(* twelve bytes gotoPosition wrote.  A move encodes a whole number of      *)
(* micrometres at the edge of the signed 32-bit range.                     *)

\* step counts a round trip starts from, up to both ends of the range
StepInputs == {0, 1, -1, 49, -49, 10000, MaxLong, (-MaxLong) - 1}

\* values of self.stepMult
MultInputs == {1, 25, 49, 256, 40000}

\* whole micrometres whose step counts lie on both sides of each end of the range
EdgePositions(m) ==
    IF m = 0 THEN {0, MaxLong, (-MaxLong) - 1}
    ELSE IF m = 1 THEN {0, MaxLong, (-MaxLong) - 1}
    ELSE LET q == MaxLong \div m
         IN  {0, q, q + 1, -q, (-q) - 1, (-q) - 2}

\* a controller that getStatus has calibrated with stepMult = m
Calibrated(m) == [self EXCEPT !.timeOut = Def(timeOut), !.stepMult = Def(m)]

PosInit ==
    /\ pc = "start"
    /\ self = [verbose |-> NoAttr, timeOut |-> NoAttr, connected |-> NoAttr,
               stepMult |-> NoAttr, currentVelocity |-> NoAttr, vScaleFactor |-> NoAttr]
    /\ ser = [open |-> FALSE, rx |-> <<>>]
    /\ last = [op |-> "", args |-> <<>>, exc |-> "none", io |-> <<>>, ret |-> NoneRet,
               report |-> NoReport, timer |-> <<>>]
    /\ codec = NoCodec
    /\ listpossave = <<>>
    /\ listpausesave = <<>>
    /\ \/ \E s \in [1..3 -> StepInputs], m \in MultInputs :
             trip = [NoTrip EXCEPT !.kind = "trip", !.s = s, !.m = m, !.exc = "pending",
                                   !.pos = [i \in 1..3 |-> <<s[i], m>>]]
       \/ \E m \in MultInputs \cup {0}, axis \in 1..3 :
          \E n \in EdgePositions(m) :
             trip = [NoTrip EXCEPT !.kind = "move", !.m = m, !.exc = "pending",
                                   !.pos = [i \in 1..3 |-> IF i = axis THEN <<n, 1>>
                                                                      ELSE <<0, 1>>]]

\* gotoPosition(s/m), then getPosition on the twelve bytes of its frame
RoundTrip ==
    /\ trip.kind = "trip"
    /\ trip.exc = "pending"
    /\ \E short \in Roundings(Calibrated(trip.m), trip.pos) :
          LET w == gotoPositionRun(Calibrated(trip.m), FreshPort, trip.pos, short,
                                   <<CR>>, 1, 0, 0)
              payload == SubSeq(w.io[1].bytes, 2, 13)
              g == getPositionRun(Calibrated(trip.m), FreshPort, payload \o <<CR>>,
                                  PositionReadLen)
          IN  trip' = IF w.exc # "none" THEN [trip EXCEPT !.exc = w.exc, !.io = w.io]
                      ELSE IF g.exc # "none" THEN [trip EXCEPT !.exc = g.exc, !.io = w.io]
                      ELSE [trip EXCEPT !.exc = "none", !.io = w.io,
                                        !.back = g.ret.val]
    /\ UNCHANGED <<pc, self, ser, last, codec, gui>>

\* gotoPosition(pos) alone
EncodeMove ==
    /\ trip.kind = "move"
    /\ trip.exc = "pending"
    /\ \E short \in Roundings(Calibrated(trip.m), trip.pos) :
          LET w == gotoPositionRun(Calibrated(trip.m), FreshPort, trip.pos, short,
                                   <<CR>>, 1, 0, 0)
          IN  trip' = [trip EXCEPT !.exc = w.exc, !.io = w.io]
    /\ UNCHANGED <<pc, self, ser, last, codec, gui>>

PosNext ==
    \/ RoundTrip
    \/ EncodeMove

SpecPos == PosInit /\ [][PosNext]_vars

-----------------------------------------------------------------------------
(* The GUI's saved lists: the handlers of the buttons that fill, edit and  *)
(* run listpossave and listpausesave.  Tkinter reports an exception that   *)
(* leaves a handler and goes on; what the handler did before stays done.   *)

\* the text of an entry field: a number, or text that float() and int() refuse
Num(n, d) == [ok |-> TRUE, v |-> <<n, d>>]
NotANumber == [ok |-> FALSE, v |-> <<0, 1>>]

\* float(entry.get()) and int(entry.get()): the first entry that does not parse raises
Parsed(entries) ==
    IF \A i \in 1..Len(entries) : entries[i].ok
    THEN [exc |-> "none", vals |-> [i \in 1..Len(entries) |-> entries[i].v]]
    ELSE [exc |-> "ValueError", vals |-> <<>>]

\* entry1, entry2, entry3
PosEntryInputs ==
    { <<Num(10, 1), Num(10, 1), Num(10, 1)>>,
      <<Num(-5, 2), Num(0, 1), Num(5, 1)>>,
      <<Num(10, 1), NotANumber, Num(10, 1)>> }

\* entry4
PauseEntryInputs == { Num(1, 2), NotANumber }

\* entry5
IndexEntryInputs ==
    { Num(j, 1) : j \in ((-MaxList) - 1)..(MaxList + 1) } \cup { NotANumber }

RECURSIVE GCD(_, _)
GCD(a, b) == IF b = 0 THEN a ELSE GCD(b, a % b)

\* operator.add on two floats n/d whose denominators are powers of two
AddFloat(x, y) ==
    LET n == x[1] * y[2] + y[1] * x[2]
        d == x[2] * y[2]
        g == GCD(IF n < 0 THEN -n ELSE n, d)
    IN  <<n \div g, d \div g>>

\* list.insert(j, x)
ListInsert(l, j, x) ==
    LET i == IF j < 0 THEN (IF Len(l) + j < 0 THEN 0 ELSE Len(l) + j)
             ELSE Min(j, Len(l))
    IN  SubSeq(l, 1, i) \o <<x>> \o SubSeq(l, i + 1, Len(l))

\* del l[j]
ListDel(l, j) ==
    LET i == IF j < 0 THEN Len(l) + j ELSE j
    IN  IF i < 0 \/ i >= Len(l) THEN [exc |-> "IndexError", l |-> l]
        ELSE [exc |-> "none", l |-> SubSeq(l, 1, i) \o SubSeq(l, i + 2, Len(l))]

\* textdisp(): reads listpausesave[i] for every index of listpossave
textdisp(pos, pauses) ==
    IF Len(pauses) < Len(pos) THEN "IndexError" ELSE "none"

\* what a handler leaves behind
Handled(op, exc, pos, pauses) ==
    /\ last' = [op |-> op, args |-> <<>>, exc |-> exc, io |-> <<>>, ret |-> NoneRet,
                report |-> NoReport, timer |-> <<>>]
    /\ listpossave' = pos
    /\ listpausesave' = pauses
    /\ UNCHANGED <<pc, self, ser, codec, trip>>

\* __init__ on a device that answers every command in full
Started ==
    LET s1 == [verbose |-> Def(verbose), timeOut |-> Def(timeOut), connected |-> Def(1),
               stepMult |-> NoAttr, currentVelocity |-> NoAttr, vScaleFactor |-> NoAttr]
        r1 == setVelocityRun(s1, FreshPort, StartVelocity, 10, <<CR>>, 1)
        r2 == updatePanelRun(r1.self, r1.ser, <<CR>>, 1)
        r3 == getStatusRun(r2.self, r2.ser, ExampleStatus \o <<CR>>, StatusLen, 1)
    IN  [r3 EXCEPT !.io = r1.io \o r2.io \o r3.io]

\* the program with its window open: the construction went through, both
\* lists are empty
GuiInit ==
    /\ pc = "ready"
    /\ self = Started.self
    /\ ser = Started.ser
    /\ last = [op |-> "__init__", args |-> <<>>, exc |-> "none", io |-> Started.io,
               ret |-> NoneRet, report |-> [msg |-> "sutterMP285 ready", val |-> 0],
               timer |-> <<>>]
    /\ codec = NoCodec
    /\ trip = NoTrip
    /\ listpossave = <<>>
    /\ listpausesave = <<>>

\* no coordinate of the position is beyond MaxTravel micrometres
InReach(tup) ==
    \A i \in 1..3 : /\ tup[i][1] <= MaxTravel * tup[i][2]
                    /\ -tup[i][1] <= MaxTravel * tup[i][2]

savepos ==
    /\ pc = "ready"
    /\ Len(listpossave) < MaxList
    /\ Len(listpausesave) < MaxList
    /\ \E e123 \in PosEntryInputs, e4 \in PauseEntryInputs :
          LET pause == Parsed(<<e4>>)
              tup == Parsed(e123)
              pauses2 == Append(listpausesave, pause.vals[1])
              prev == listpossave[Len(listpossave)]
              pos2 == IF Len(listpossave) = 0 THEN Append(listpossave, tup.vals)
                      ELSE Append(listpossave,
                                  [i \in 1..3 |-> AddFloat(prev[i], tup.vals[i])])
          IN  IF pause.exc # "none"
              THEN Handled("savepos", pause.exc, listpossave, listpausesave)
              ELSE IF tup.exc = "none" /\ ~InReach(pos2[Len(pos2)])
              THEN FALSE
              ELSE IF tup.exc # "none"
              THEN Handled("savepos", tup.exc, listpossave, pauses2)
              ELSE Handled("savepos", textdisp(pos2, pauses2), pos2, pauses2)

\* what the device and the port do during one move of multirun
MoveEnvs == [reply : {<<>>, <<CR>>}, k : 0..1]

\* one pass of the loop of multirun at index i (listpossave[i - 1] of Python),
\* from the outcome `was` of the passes before it; the saved positions are sums
\* of floats with power-of-two denominators, whose products with stepMult are
\* not rounded
RunStep(was, i, e) ==
    IF ~was.ok \/ was.exc # "none" THEN was
    ELSE IF i > Len(listpausesave) THEN [was EXCEPT !.exc = "IndexError"]
    ELSE IF ~(/\ e.reply \in DeviceReplies(OpMove, was.ser.rx)
              /\ e.k \in ReadCounts(1, Avail(was.ser, e.reply)))
    THEN [was EXCEPT !.ok = FALSE]
    ELSE CHOOSE out \in
            { [ok |-> TRUE, exc |-> r.exc, self |-> r.self, ser |-> r.ser,
               io |-> was.io \o r.io] :
              r \in { gotoPositionRun(was.self, was.ser, listpossave[i],
                                      [j \in 1..3 |-> FALSE], e.reply, e.k, 0,
                                      IF e.k = 0 THEN timeOut ELSE 0) } } : TRUE

\* the loop of multirun over the whole list
RunList(s, p, envs) ==
    LET run[i \in 0..Len(listpossave)] ==
            IF i = 0 THEN [ok |-> TRUE, exc |-> "none", self |-> s, ser |-> p, io |-> <<>>]
            ELSE CHOOSE out \in { RunStep(was, i, envs[i]) : was \in {run[i - 1]} } : TRUE
    IN  run[Len(listpossave)]

multirun ==
    /\ pc = "ready"
    /\ \E envs \in [1..Len(listpossave) -> MoveEnvs] :
       \E r \in {RunList(self, ser, envs)} :
          /\ r.ok
          /\ last' = [op |-> "multirun", args |-> <<>>, exc |-> r.exc, io |-> r.io,
                      ret |-> NoneRet, report |-> NoReport, timer |-> <<>>]
          /\ self' = r.self
          /\ ser' = r.ser
          /\ pc' = IF r.exc = "SystemExit" THEN "exited" ELSE pc
    /\ UNCHANGED <<codec, trip, gui>>

clearlist ==
    /\ pc = "ready"
    /\ Handled("clearlist", textdisp(<<>>, <<>>), <<>>, <<>>)

listinsert ==
    /\ pc = "ready"
    /\ Len(listpossave) < MaxList
    /\ Len(listpausesave) < MaxList
    /\ \E e123 \in PosEntryInputs, e4 \in PauseEntryInputs, e5 \in IndexEntryInputs :
          LET j == Parsed(<<e5>>)
              tup == Parsed(e123)
              pos2 == ListInsert(listpossave, j.vals[1][1], tup.vals)
              pause == Parsed(<<e4>>)
              pauses2 == ListInsert(listpausesave, j.vals[1][1], pause.vals[1])
          IN  IF listpossave = <<>>
              THEN Handled("listinsert", "none", listpossave, listpausesave)
              ELSE IF j.exc # "none"
              THEN Handled("listinsert", j.exc, listpossave, listpausesave)
              ELSE IF tup.exc # "none"
              THEN Handled("listinsert", tup.exc, listpossave, listpausesave)
              ELSE IF pause.exc # "none"
              THEN Handled("listinsert", pause.exc, pos2, listpausesave)
              ELSE Handled("listinsert", textdisp(pos2, pauses2), pos2, pauses2)

removeelem ==
    /\ pc = "ready"
    /\ \E e5 \in IndexEntryInputs :
          LET j == Parsed(<<e5>>)
              d1 == ListDel(listpossave, j.vals[1][1])
              d2 == ListDel(listpausesave, j.vals[1][1])
          IN  IF j.exc # "none"
              THEN Handled("removeelem", j.exc, listpossave, listpausesave)
              ELSE IF ~(j.vals[1][1] < Len(listpossave))
              THEN Handled("removeelem", "none", listpossave, listpausesave)
              ELSE IF d1.exc # "none"
              THEN Handled("removeelem", d1.exc, listpossave, listpausesave)
              ELSE IF d2.exc # "none"
              THEN Handled("removeelem", d2.exc, d1.l, listpausesave)
              ELSE Handled("removeelem", textdisp(d1.l, d2.l), d1.l, d2.l)

GuiNext ==
    \/ savepos
    \/ listinsert
    \/ removeelem
    \/ clearlist
    \/ multirun

SpecGui == GuiInit /\ [][GuiNext]_vars

-----------------------------------------------------------------------------
(* Properties.                                                             *)

AckOps == {"setVelocity", "updatePanel", "setOrigin"}
ControllerOps == AckOps \cup {"getPosition", "gotoPosition", "sendReset", "getStatus"}

\* the kinds of the transport calls of the last operation, in order
Kinds(io) == [i \in 1..Len(io) |-> io[i].kind]

\* gotoPosition or setVelocity stopped while encoding its argument
EncodeFailed ==
    /\ last.op \in {"gotoPosition", "setVelocity"}
    /\ last.exc \in {"struct.error", "SystemExit"}

\* the three cached status values
Cache == <<self.stepMult, self.currentVelocity, self.vScaleFactor>>

\* C1 (as claimed): once the port is closed, every Controller operation fails with
\* the closed-connection error (pyserial's SerialException for a port that is not
\* open) and performs no write and no read.
C1_ClosedFailsWithClosedError ==
    (~ser.open /\ last.op \in ControllerOps)
        => (last.exc = "SerialException" /\ last.io = <<>>)

\* C1 (amended): once the port is closed, every Controller operation fails and
\* performs no write and no read; the failure is the port's closed error, except
\* that gotoPosition and setVelocity fail with the encoding error of their argument
\* when it does not encode, because they encode before they touch the port.
C1_ClosedFailsNoIO ==
    (~ser.open /\ last.op \in ControllerOps)
        => /\ last.io = <<>>
           /\ last.exc # "none"
           /\ (last.exc = "SerialException" \/ EncodeFailed)

C1_Witness ==
    /\ ~ser.open
    /\ last.op = "getStatus"
    /\ last.exc = "SerialException"
    /\ last.io = <<>>

\* C2 (as claimed): every call of getPosition, gotoPosition, setVelocity,
\* updatePanel, setOrigin and getStatus performs exactly one write followed by
\* exactly one read, and sendReset exactly one write and no read.
C2_OneWriteOneRead ==
    /\ (last.op \in ControllerOps \ {"sendReset"}) => Kinds(last.io) = <<"w", "r">>
    /\ last.op = "sendReset" => Kinds(last.io) = <<"w">>

\* C2 (amended): on an open port, a call whose argument encodes performs exactly
\* one write followed by exactly one read, except getStatus, which performs one
\* write followed by two reads (of 32 bytes, then of 1), and sendReset, which
\* performs one write and no read; a call on a closed port, and a gotoPosition or
\* setVelocity whose argument does not encode, performs no transport call at all.
C2_WriteThenReads ==
    last.op \in ControllerOps =>
        IF ~ser.open \/ EncodeFailed THEN last.io = <<>>
        ELSE IF last.op = "getStatus"
             THEN /\ Kinds(last.io) = <<"w", "r", "r">>
                  /\ last.io[2].n = 32
                  /\ last.io[3].n = 1
        ELSE IF last.op = "sendReset" THEN Kinds(last.io) = <<"w">>
        ELSE Kinds(last.io) = <<"w", "r">>

C2_Witness ==
    /\ last.op = "getStatus"
    /\ last.exc = "none"
    /\ Kinds(last.io) = <<"w", "r", "r">>

\* C3: at most one command is outstanding: no command is written while bytes of an
\* earlier response are still unread, and no read returns a byte that the device
\* produced for an earlier command.
C3_HalfDuplex ==
    \A i \in 1..Len(last.io) :
        /\ last.io[i].kind = "w" => last.io[i].outstanding = 0
        /\ last.io[i].kind = "r" => ~last.io[i].stale

C5_ReturnsElapsed ==
    (/\ last.op = "gotoPosition"
     /\ last.exc = "none"
     /\ Len(last.io) = 2
     /\ Len(last.io[2].bytes) = 1)
        => last.ret = [kind |-> "float", val |-> <<last.timer[2] - last.timer[1]>>]

\* C6: a short acknowledgement read of setVelocity, updatePanel or setOrigin, and a
\* short terminator read of getStatus or getPosition, ends the call in a failure
\* the caller sees.
C6_ShortReadSurfaced ==
    /\ (/\ last.op \in AckOps
        /\ Len(last.io) = 2
        /\ Len(last.io[2].bytes) < last.io[2].n) => last.exc # "none"
    /\ (/\ last.op = "getPosition"
        /\ Len(last.io) = 2
        /\ Len(last.io[2].bytes) < last.io[2].n) => last.exc # "none"
    /\ (/\ last.op = "getStatus"
        /\ Len(last.io) = 3
        /\ Len(last.io[3].bytes) < last.io[3].n) => last.exc # "none"

\* C7: setVelocity, updatePanel, setOrigin, sendReset, getPosition and gotoPosition
\* leave stepMult, currentVelocity and vScaleFactor as they were.
C7_CacheOnlyByGetStatus ==
    [][ last'.op \in (ControllerOps \ {"getStatus"}) => Cache' = Cache ]_vars

C7_Witness ==
    /\ last.op = "setVelocity"
    /\ last.exc = "none"
    /\ Len(last.io[2].bytes) = 1
    /\ last.args = <<32767, 50>>
    /\ self.currentVelocity = Def(200)
    /\ self.vScaleFactor = Def(10)

\* C8: setVelocity fails with the range error (struct.error) and writes nothing
\* whenever the magnitude exceeds 32767 or the scale factor is neither 10 nor 50.
C8_VelocityRangeChecked ==
    (/\ last.op = "setVelocity"
     /\ (last.args[1] > 32767 \/ last.args[2] \notin {10, 50}))
        => (last.exc = "struct.error" /\ last.io = <<>>)

\* C9: for a magnitude in 0..32767 and a scale factor of 10 or 50, setVelocity
\* writes the payload (magnitude mod 256, magnitude div 256, plus 128 for scale
\* 50), and getStatus decodes a status block holding that payload at bytes 28 and
\* 29 to the same magnitude and scale factor.
C9_VelocityRoundTrip ==
    (/\ codec.exc # "pending"
     /\ codec.Vel <= 32767
     /\ codec.vScalF \in {10, 50})
        => /\ codec.exc = "none"
           /\ codec.bytes = <<codec.Vel % 256,
                              (codec.Vel \div 256) + (IF codec.vScalF = 50 THEN 128 ELSE 0)>>
           /\ codec.decoded[2] = codec.Vel
           /\ codec.decoded[3] = codec.vScalF

C9_Witness ==
    /\ codec.exc = "none"
    /\ codec.Vel = 32767
    /\ codec.vScalF = 50
    /\ codec.bytes = <<255, 255>>
    /\ codec.decoded = <<25, 32767, 50>>

\* C10: a successful getStatus returns, and stores in the object, the values
\* byte[24] + 256*byte[25], 256*(byte[29] mod 128) + byte[28], and 50 or 10 by bit
\* 7 of byte[29], of the 32 bytes it read; nothing else of the block enters.
C10_StatusDecode ==
    (last.op = "getStatus" /\ last.exc = "none") =>
        LET b == last.io[2].bytes
            stepMultiplier == b[25] + 256 * b[26]
            currentVelocity == 256 * (b[30] % 128) + b[29]
            velocityScaleFactor == IF b[30] \div 128 = 1 THEN 50 ELSE 10
        IN  /\ Len(b) = 32
            /\ last.ret = [kind |-> "tuple",
                           val |-> <<stepMultiplier, currentVelocity, velocityScaleFactor>>]
            /\ self.stepMult = Def(stepMultiplier)
            /\ self.currentVelocity = Def(currentVelocity)
            /\ self.vScaleFactor = Def(velocityScaleFactor)

C10_Witness ==
    /\ last.op = "getStatus"
    /\ last.exc = "none"
    /\ last.io[2].bytes[29] = 1
    /\ last.io[2].bytes[30] = 172
    /\ self.currentVelocity = Def(11265)
    /\ self.vScaleFactor = Def(50)

\* C11: the step counts gotoPosition encodes for the position s/m of three
\* signed 32-bit step counts s and a positive step multiplier m, decoded as
\* getPosition decodes a response, are each within one step of s (and come
\* back divided by the same m).
C11_PositionRoundTrip ==
    (trip.kind = "trip" /\ trip.exc # "pending")
        => /\ trip.exc = "none"
           /\ \A i \in 1..3 :
                 /\ trip.back[i][2] = trip.m
                 /\ \/ trip.back[i][1] = trip.s[i]
                    \/ trip.s[i] > (-MaxLong) - 1 /\ trip.back[i][1] = trip.s[i] - 1
                    \/ trip.s[i] < MaxLong /\ trip.back[i][1] = trip.s[i] + 1

\* a round trip that loses a step on every axis, at the top of the range too
C11_Witness ==
    /\ trip.kind = "trip"
    /\ trip.exc = "none"
    /\ trip.m = 49
    /\ trip.s = <<1, -1, MaxLong>>
    /\ trip.back = <<<<0, 49>>, <<0, 49>>, <<MaxLong - 1, 49>>>>

\* C12: getPosition returns, for a response of 12 data bytes plus the
\* terminator, the three little-endian signed 32-bit step counts each divided
\* by the cached step multiplier, and fails with the malformed-response error
\* (struct.error) for every other response, a 12-byte response without its
\* terminator included.
C12_PositionOrMalformed ==
    (last.op = "getPosition" /\ Len(last.io) = 2)
        => LET b == last.io[2].bytes
           IN  IF Len(b) = PositionReadLen /\ b[PositionReadLen] = CR
               THEN /\ last.exc = "none"
                    /\ last.ret.val =
                          [i \in 1..3 |->
                              <<LongValue(SubSeq(b, 4 * i - 3, 4 * i)), Val(self.stepMult)>>]
               ELSE last.exc = "struct.error"

\* C13: when the status read returns anything other than exactly 32 bytes,
\* getStatus fails with the malformed-response error (struct.error) and none of
\* the cached stepMult, currentVelocity and vScaleFactor is modified.
C13_ShortStatusFails ==
    [][ (/\ last'.op = "getStatus"
         /\ Len(last'.io) >= 2
         /\ Len(last'.io[2].bytes) # StatusLen)
            => (last'.exc = "struct.error" /\ Cache' = Cache) ]_vars

\* a getStatus whose read of 32 came back short, on a calibrated controller
C13_Witness ==
    /\ last.op = "getStatus"
    /\ Len(last.io) = 3
    /\ Len(last.io[2].bytes) = StatusLen - 1
    /\ last.exc = "struct.error"
    /\ self.stepMult = Def(25)

\* a whole number n of micrometres times m steps is not a signed 32-bit value
OutOfRange(n, m) ==
    /\ m > 0
    /\ \/ n > 0 /\ n > MaxLong \div m
       \/ n < 0 /\ (-(n + 1)) > (MaxLong - (m - 1)) \div m

\* C14: gotoPosition rejects with the range error (struct.error), before any
\* byte is written, every position of which some coordinate multiplied by the
\* step multiplier and truncated toward zero is not a signed 32-bit value.
C14_OverflowRejected ==
    (/\ trip.kind = "move"
     /\ trip.exc # "pending"
     /\ \E i \in 1..3 : OutOfRange(trip.pos[i][1], trip.m))
        => (trip.exc = "struct.error" /\ trip.io = <<>>)

\* 8388608 um at 256 steps/um is 2^31 steps, one more than fits: rejected unwritten
C14_Witness ==
    /\ trip.kind = "move"
    /\ trip.m = 256
    /\ trip.pos = <<<<0, 1>>, <<8388608, 1>>, <<0, 1>>>>
    /\ trip.exc = "struct.error"
    /\ trip.io = <<>>

\* the moves next to it that are in range are written
InRangeMovesWritten ==
    (/\ trip.kind = "move"
     /\ trip.exc # "pending"
     /\ \A i \in 1..3 : ~OutOfRange(trip.pos[i][1], trip.m))
        => (trip.exc = "none" /\ Len(trip.io) = 2)

\* the frames the last operation wrote, in order
Frames(io) ==
    LET w == SelectSeq(io, LAMBDA e : e.kind = "w")
    IN  [i \in 1..Len(w) |-> w[i].bytes]

\* C15: construction over an opened port writes set-velocity(200, scale 10),
\* update-panel and query-status in that order and always ends with a connected,
\* usable controller, which is reported degraded (the startup warning) exactly
\* when the currentVelocity of that status query is not 200.
C15_ConstructionCompletes ==
    (last.op = "__init__" /\ ser.open)
        => /\ Frames(last.io) = << <<OpVelocity, 200, 0, CR>>, <<OpPanel, CR>>,
                                   <<OpStatus, CR>> >>
           /\ pc = "ready"
           /\ self.connected = Def(1)
           /\ (last.report.msg = "sutterMP285: WARNING sutter did not respond at startup.")
                 <=> (Val(self.currentVelocity) # StartVelocity)

\* C16 (as claimed): when opening the port fails, construction ends in a failure
\* that is returned to the caller, not in a process exit, and no frame is
\* written and no read is made.
C16_OpenFailureReturned ==
    (last.op = "__init__" /\ ~ser.open)
        => (last.exc # "none" /\ pc # "exited" /\ last.io = <<>>)

\* C16 (amended): when opening the port fails, construction prints that no
\* connection could be established and ends the process with sys.exit; the open
\* is not tried again, no frame is written, no read is made, and no attribute
\* beyond verbose and timeOut is set.
C16_OpenFailureExits ==
    (last.op = "__init__" /\ ~ser.open)
        => /\ last.exc = "SystemExit"
           /\ pc = "exited"
           /\ last.io = <<>>
           /\ last.report.msg = "No connection to Sutter MP-285 could be established!"
           /\ self.connected = NoAttr
           /\ ~ENABLED Next

\* construction after a failed open
C16_Witness ==
    /\ last.op = "__init__"
    /\ ~ser.open
    /\ pc = "exited"
    /\ last.io = <<>>

\* C17: whenever the calibration is populated the cached step multiplier is
\* positive, whatever 32-byte block the device sent (bytes 24 and 25 both zero
\* included), so that getPosition never divides by zero.
C17_StepMultPositive ==
    /\ IsDef(self.stepMult) => Val(self.stepMult) > 0
    /\ (last.op = "getPosition" /\ last.exc = "none")
          => \A i \in 1..3 : last.ret.val[i][2] # 0

\* C18: no getPosition or gotoPosition reads the cached step multiplier before
\* a getStatus has completed: a caller only has a controller whose calibration
\* is defined, also when the status query of the construction came back short
\* (then there is no controller to call).
C18_CalibratedBeforeUse ==
    /\ pc = "ready" => IsDef(self.stepMult)
    /\ last.op \in {"getPosition", "gotoPosition"} => last.exc # "AttributeError"
    /\ ~IsDef(self.stepMult) => last.op \in {"", "__init__"}

\* a position read on a controller that the construction calibrated
C18_Witness ==
    /\ last.op = "getPosition"
    /\ last.exc = "none"
    /\ Len(last.io) = 2
    /\ IsDef(self.stepMult)

\* C19: after any sequence of savepos, listinsert, removeelem and clearlist,
\* calls in which an entry does not parse or the index is out of range included,
\* the saved positions and the saved pauses have the same length, so that
\* multirun finds a pause at every index at which it finds a position.
C19_ListsSameLength ==
    /\ Len(listpossave) = Len(listpausesave)
    /\ last.op = "multirun" => last.exc # "IndexError"

====
